---- MODULE Spec2Model ----
(***************************************************************************)
(* Model of the subscriber service (task/subscriber/subscriber_service.py) *)
(* together with the transport, storage engine and realtime gateway it     *)
(* talks to.  Three threads of one process are modelled:                   *)
(*   main      __main__: starts the flush thread, probes the transport,    *)
(*             starts the listener thread                                  *)
(*   listener  start_subscriber.listen + message_handler +                 *)
(*             forward_to_centrifugo                                       *)
(*   flusher   insert_batch_to_postgres                                    *)
(* Strings are sequences of one-character strings, bytes are sequences of  *)
(* byte values, so that decoding, splitting, stripping and float parsing   *)
(* are computed the way the Python code computes them.                     *)
(***************************************************************************)
EXTENDS Integers, Sequences, FiniteSets, TLC

\* ------------------------------------------------------------------ bounds
\* Total number of messages the tick source publishes in one behaviour.
MaxMsgs == 2

\* Number of threads that run the critical section of message_handler
\* side by side in the append harness.
NumCallers == 3

\* ------------------------------------------------------- program constants
\* wait_for_redis(retries=5)
retries == 5

\* ------------------------------------------------------------ text helpers
Range(s) == {s[i] : i \in DOMAIN s}

\* The characters that occur in the modelled traffic, with their code points.
AsciiTable ==
  << <<" ", 32>>, <<"(", 40>>, <<")", 41>>, <<"+", 43>>, <<",", 44>>,
     <<"-", 45>>, <<".", 46>>, <<"0", 48>>, <<"1", 49>>, <<"2", 50>>,
     <<"3", 51>>, <<"4", 52>>, <<"5", 53>>, <<"6", 54>>, <<"7", 55>>,
     <<"8", 56>>, <<"9", 57>>, <<":", 58>>, <<"A", 65>>, <<"D", 68>>,
     <<"E", 69>>, <<"L", 76>>, <<"N", 78>>, <<"P", 80>>, <<"Q", 81>>,
     <<"S", 83>>, <<"Y", 89>>, <<"x", 120>> >>

CodePoint ==
  [c \in {p[1] : p \in Range(AsciiTable)} |->
     (CHOOSE p \in Range(AsciiTable) : p[1] = c)[2]]

Character ==
  [b \in {p[2] : p \in Range(AsciiTable)} |->
     (CHOOSE p \in Range(AsciiTable) : p[2] = b)[1]]

Ord(c) == CodePoint[c]

Chr(b) == Character[b]

\* str.encode("utf-8") as done by the redis client of the publisher
Utf8Encode(s) == [i \in DOMAIN s |-> Ord(s[i])]

\* bytes.decode("utf-8"): a byte >= 128 that starts no valid sequence raises
\* UnicodeDecodeError; the modelled traffic has only ASCII and the byte 255.
Utf8Decode(b) ==
  IF \E i \in DOMAIN b : b[i] >= 128
    THEN [ok |-> FALSE, str |-> <<>>]
    ELSE [ok |-> TRUE, str |-> [i \in DOMAIN b |-> Chr(b[i])]]

\* Index of the first occurrence of character c in s, 0 if there is none.
Find(s, c) ==
  IF \E i \in DOMAIN s : s[i] = c
    THEN CHOOSE i \in DOMAIN s : s[i] = c /\ \A j \in 1..(i - 1) : s[j] # c
    ELSE 0

\* str.split(sep) for a one-character separator: splits at EVERY occurrence.
RECURSIVE Split(_, _)
Split(s, sep) ==
  LET i == Find(s, sep) IN
  IF i = 0 THEN <<s>>
  ELSE <<SubSeq(s, 1, i - 1)>> \o Split(SubSeq(s, i + 1, Len(s)), sep)

RECURSIVE LStrip(_, _)
LStrip(s, chars) ==
  IF s # <<>> /\ Head(s) \in chars THEN LStrip(Tail(s), chars) ELSE s

RECURSIVE RStrip(_, _)
RStrip(s, chars) ==
  IF s # <<>> /\ s[Len(s)] \in chars
    THEN RStrip(SubSeq(s, 1, Len(s) - 1), chars) ELSE s

\* str.strip(chars): removes every leading and trailing character in chars.
Strip(s, chars) == RStrip(LStrip(s, chars), chars)

Digits == {"0", "1", "2", "3", "4", "5", "6", "7", "8", "9"}

RECURSIVE DigitsToInt(_)
DigitsToInt(s) ==
  IF s = <<>> THEN 0
  ELSE 10 * DigitsToInt(SubSeq(s, 1, Len(s) - 1)) + (Ord(s[Len(s)]) - 48)

\* A float value is num / 10^exp, kept in lowest decimal terms so that equal
\* numbers have equal representations (1.50 = 1.5, 2 = 2.0, -0 = 0).
RECURSIVE Normalize(_, _)
Normalize(num, exp) ==
  IF num = 0 THEN [num |-> 0, exp |-> 0]
  ELSE IF exp > 0 /\ num % 10 = 0 THEN Normalize(num \div 10, exp - 1)
  ELSE [num |-> num, exp |-> exp]

\* Float as it would be if float() did not accept surrounding whitespace.
Float_NoStrip(s) ==
  LET neg  == s # <<>> /\ Head(s) = "-"
      u    == IF s # <<>> /\ Head(s) \in {"+", "-"} THEN Tail(s) ELSE s
      dot  == Find(u, ".")
      ip   == IF dot = 0 THEN u ELSE SubSeq(u, 1, dot - 1)
      fp   == IF dot = 0 THEN <<>> ELSE SubSeq(u, dot + 1, Len(u))
      good == /\ Range(ip) \subseteq Digits
              /\ Range(fp) \subseteq Digits
              /\ Len(ip) + Len(fp) > 0
      mag  == Normalize(DigitsToInt(ip \o fp), Len(fp))
  IN IF good
       THEN [ok |-> TRUE,
             val |-> [num |-> IF neg THEN 0 - mag.num ELSE mag.num,
                      exp |-> mag.exp]]
       ELSE [ok |-> FALSE, val |-> [num |-> 0, exp |-> 0]]

\* float(s) on the modelled alphabet: surrounding whitespace is ignored, an
\* optional sign, then digits with at most one point and at least one digit.
Float(s) ==
  LET t    == Strip(s, {" "})
      neg  == t # <<>> /\ Head(t) = "-"
      u    == IF t # <<>> /\ Head(t) \in {"+", "-"} THEN Tail(t) ELSE t
      dot  == Find(u, ".")
      ip   == IF dot = 0 THEN u ELSE SubSeq(u, 1, dot - 1)
      fp   == IF dot = 0 THEN <<>> ELSE SubSeq(u, dot + 1, Len(u))
      good == /\ Range(ip) \subseteq Digits
              /\ Range(fp) \subseteq Digits
              /\ Len(ip) + Len(fp) > 0
      mag  == Normalize(DigitsToInt(ip \o fp), Len(fp))
  IN IF good
       THEN [ok |-> TRUE,
             val |-> [num |-> IF neg THEN 0 - mag.num ELSE mag.num,
                      exp |-> mag.exp]]
       ELSE [ok |-> FALSE, val |-> [num |-> 0, exp |-> 0]]

\* ------------------------------------------------------------ the traffic
NASDAQ == <<"N", "A", "S", "D", "A", "Q">>

NYSE == <<"N", "Y", "S", "E">>

\* pubsub.subscribe(**{"NASDAQ": message_handler, "NYSE": message_handler})
Channels == {NASDAQ, NYSE}

\* The channel names as the transport carries them.
ChannelWire == [ch \in Channels |-> Utf8Encode(ch)]

\* Payloads the tick source may publish (as text, before encoding).
\* "AAPL:(1.50, 2.0)"  the documented wire format, as the generator writes it
PayloadGood == <<"A", "A", "P", "L", ":", "(", "1", ".", "5", "0", ",", " ", "2", ".", "0", ")">>

\* "A:(-3,0.25)"  well formed: a negative price, no blank after the comma
PayloadGood2 == <<"A", ":", "(", "-", "3", ",", "0", ".", "2", "5", ")">>

\* "AAPL(1.5, 2)"  colon missing
PayloadNoColon == <<"A", "A", "P", "L", "(", "1", ".", "5", ",", " ", "2", ")">>

\* "AAPL:1.5, 2"  parentheses missing
PayloadNoParens == <<"A", "A", "P", "L", ":", "1", ".", "5", ",", " ", "2">>

\* "AAPL:(1.5 2)"  pair malformed: no comma
PayloadNoComma == <<"A", "A", "P", "L", ":", "(", "1", ".", "5", " ", "2", ")">>

\* "AAPL:(x, 2)"  price not numeric
PayloadBadPrice == <<"A", "A", "P", "L", ":", "(", "x", ",", " ", "2", ")">>

\* "AAPL:(1.5, 2x)"  timestamp not numeric
PayloadBadTime == <<"A", "A", "P", "L", ":", "(", "1", ".", "5", ",", " ", "2", "x", ")">>

WellFormed == {PayloadGood, PayloadGood2}

MissingColon == {PayloadNoColon}

MissingParens == {PayloadNoParens}

MalformedPair == {PayloadNoComma}

NonNumeric == {PayloadBadPrice, PayloadBadTime}

Payloads == WellFormed \cup MissingColon \cup MissingParens \cup MalformedPair \cup NonNumeric

\* The payloads as the transport carries them.
PayloadWire == [p \in Payloads |-> Utf8Encode(p)]

\* ------------------------------------------------------------- the parser
NoTick == [stock |-> <<>>, exchange |-> <<>>, price |-> [num |-> 0, exp |-> 0],
           timestamp |-> [num |-> 0, exp |-> 0], id |-> 0]

\* The try-block of message_handler up to the float casts.  The result is
\* the tuple (stock_name, channel, price, timestamp); id is the identity of
\* the message the tuple was made from (history, not program data).
ParseMessage(msg) ==
  LET channel == Utf8Decode(msg.channel)
      data    == Utf8Decode(msg.data)
      parts   == Split(data.str, ":")
      fields  == Split(Strip(parts[2], {"(", ")"}), ",")
      price   == Float(fields[1])
      tstamp  == Float(fields[2])
  IN IF ~channel.ok \/ ~data.ok THEN [ok |-> FALSE, tick |-> NoTick]
     ELSE IF Len(parts) # 2 THEN [ok |-> FALSE, tick |-> NoTick]
     ELSE IF Len(fields) # 2 THEN [ok |-> FALSE, tick |-> NoTick]
     ELSE IF ~price.ok \/ ~tstamp.ok THEN [ok |-> FALSE, tick |-> NoTick]
     ELSE [ok |-> TRUE,
           tick |-> [stock |-> parts[1], exchange |-> channel.str,
                     price |-> price.val, timestamp |-> tstamp.val,
                     id |-> msg.id]]

\* The dict handed to forward_to_centrifugo by message_handler.
ForwardData(tick) ==
  [stock |-> tick.stock, price |-> tick.price, timestamp |-> tick.timestamp]

\* CentrifugoPayload as it would be with one channel wired in.
CentrifugoPayload_FixedChannel(channel, message) ==
  [method |-> "publish", params |-> [channel |-> NASDAQ, data |-> message]]

\* The JSON envelope built by forward_to_centrifugo.
CentrifugoPayload(channel, message) ==
  [method |-> "publish", params |-> [channel |-> channel, data |-> message]]

\* The row executemany binds for one buffered tuple: the columns of the
\* INSERT statement take the elements of the tuple in order (to_timestamp
\* keeps the instant the unix seconds name).
Row(r) ==
  [stock_name |-> r.stock, exchange_name |-> r.exchange, price |-> r.price,
   timestamp |-> r.timestamp, id |-> r.id]

Rows(batch) == [i \in DOMAIN batch |-> Row(batch[i])]

Ids(batch) == {batch[i].id : i \in DOMAIN batch}

RECURSIVE Flatten(_)
Flatten(ss) == IF ss = <<>> THEN <<>> ELSE Head(ss) \o Flatten(Tail(ss))

\* Bytes that are no valid UTF-8 text: "A:" followed by the byte 0xFF.
InvalidUtf8 == <<65, 58, 255>>

\* What the transport can carry as the data of a message.
WireData == {PayloadWire[p] : p \in Payloads} \cup {InvalidUtf8}

\* What the tick source publishes in the runs of the whole service: the
\* documented format and one payload the parser rejects.
MainData == {PayloadWire[PayloadGood], PayloadWire[PayloadBadPrice]}

\* Callers of the append harness, and the name each holds the lock under.
Callers == 1..NumCallers

CallerName(c) == ToString(c)

\* ---------------------------------------------------------------- state
VARIABLES
  mainpc,          \* __main__: "start", "probe", "probe_failed", "running", "exited"
  probe_i,         \* wait_for_redis: the loop variable i
  exit_status,     \* exit status of the process, -1 while it runs
  lpc,             \* listener thread: "idle", "connect", "listen", "handle",
                   \*   "lock", "append", "forward", "forward_failed", "delay"
  sock,            \* messages the transport delivered to the subscription,
                   \*   not yet pulled by pubsub.listen()
  lmsg,            \* msg of the running message_handler call
  ltick,           \* (stock_name, channel, price, timestamp) of that call
  fpc,             \* flush thread: "idle", "sleep", "lock", "drain", "clear",
                   \*   "connect", "executemany", "commit", "close"
  to_insert,       \* local of insert_batch_to_postgres
  batch_buffer,    \* the global batch buffer
  buffer_lock,     \* holder of buffer_lock: "free", "listener", "flusher",
                   \*   or the name of a caller of the append harness
  cpc,             \* append harness: where each extra caller of the
                   \*   critical section of message_handler stands
  db,              \* rows committed to stock_prices
  pg_calls,        \* history: number of calls made to the storage engine
  executed,        \* history: the batches handed to executemany
  gateway,         \* history: the requests posted to the gateway
  logs,            \* history: the structured log events printed
  handler_errors,  \* history: ids of messages message_handler gave up on
  next_id,         \* history: identity of the next message of the source
  lost,            \* history: ids of the messages published while there
                   \*   was no subscription to receive them
  appended,        \* history: every tuple appended to batch_buffer
  drained,         \* history: every batch taken out of batch_buffer
  discarded,       \* history: ids of the tuples of batches whose insert failed
  appended_since_drain, \* history: an append happened after the last drain
  last_drain,      \* history: "none", or what the last drain found: "empty", "batch"
  delivered        \* history: the messages pubsub.listen() pulled

vars == <<mainpc, probe_i, exit_status, lpc, sock, lmsg, ltick, fpc, to_insert,
          batch_buffer, buffer_lock, db, pg_calls, executed, gateway, logs,
          handler_errors, next_id, lost, appended, drained, discarded,
          appended_since_drain, last_drain, delivered, cpc>>

mainVars == <<mainpc, probe_i, exit_status>>

listenerVars == <<lpc, sock, lmsg, ltick, delivered>>

flusherVars == <<fpc, to_insert>>

storageVars == <<db, pg_calls, executed, logs, discarded>>

bufferVars == <<batch_buffer, buffer_lock, appended, drained,
                appended_since_drain, last_drain>>

sourceVars == <<next_id, lost, cpc>>

NoMsg == [type |-> "none", channel |-> <<>>, data |-> <<>>, id |-> 0]

\* The confirmation the transport sends for each subscribed channel.
SubscribeMsg(ch) ==
  [type |-> "subscribe", channel |-> ChannelWire[ch], data |-> <<>>, id |-> 0]

\* The daemon threads run only while the process does.
Alive == mainpc # "exited"

\* The listener holds a live subscription (Subscribed state of the listener).
Subscribed ==
  lpc \in {"listen", "handle", "lock", "append", "forward", "forward_failed"}

Init ==
  /\ mainpc = "start"
  /\ probe_i = 0
  /\ exit_status = -1
  /\ lpc = "idle"
  /\ sock = <<>>
  /\ lmsg = NoMsg
  /\ ltick = NoTick
  /\ fpc = "idle"
  /\ to_insert = <<>>
  /\ batch_buffer = <<>>
  /\ buffer_lock = "free"
  /\ db = <<>>
  /\ pg_calls = 0
  /\ executed = <<>>
  /\ gateway = <<>>
  /\ logs = <<>>
  /\ handler_errors = <<>>
  /\ next_id = 1
  /\ lost = {}
  /\ appended = <<>>
  /\ drained = <<>>
  /\ discarded = {}
  /\ appended_since_drain = FALSE
  /\ last_drain = "none"
  /\ delivered = <<>>
  /\ cpc = [c \in Callers |-> "idle"]

\* ------------------------------------------------------------ __main__
\* threading.Thread(target=insert_batch_to_postgres, daemon=True).start()
MainStartFlusher ==
  /\ mainpc = "start"
  /\ mainpc' = "probe"
  /\ fpc' = "sleep"
  /\ UNCHANGED <<probe_i, exit_status, listenerVars, to_insert, bufferVars,
                 storageVars, gateway, handler_errors, sourceVars>>

\* One iteration of wait_for_redis.  r.ping() answers, raises
\* redis.exceptions.ConnectionError (caught, next attempt) or raises another
\* exception, which nothing in __main__ catches.
ProbePing(outcome) ==
  /\ mainpc = "probe"
  /\ probe_i < retries
  /\ CASE outcome = "ok" ->
            \* return True, then start_subscriber() starts the listener
            /\ mainpc' = "running"
            /\ lpc' = "connect"
            /\ UNCHANGED <<probe_i, exit_status>>
       [] outcome = "ConnectionError" ->
            /\ probe_i' = probe_i + 1
            /\ mainpc' = IF probe_i + 1 < retries THEN "probe" ELSE "probe_failed"
            /\ UNCHANGED <<lpc, exit_status>>
       [] outcome = "OtherError" ->
            /\ mainpc' = "exited"
            /\ exit_status' = 1
            /\ UNCHANGED <<lpc, probe_i>>
  /\ UNCHANGED <<sock, lmsg, ltick, delivered, flusherVars, bufferVars,
                 storageVars, gateway, handler_errors, sourceVars>>

\* MainExit as it would be if __main__ went on after a failed probe.
MainExit_GoesOn ==
  /\ mainpc = "probe_failed"
  /\ mainpc' = "running"
  /\ lpc' = "connect"
  /\ UNCHANGED <<probe_i, exit_status, sock, lmsg, ltick, delivered,
                 flusherVars, bufferVars, storageVars, gateway, handler_errors,
                 sourceVars>>

\* wait_for_redis returned False: print, exit(1)
MainExit ==
  /\ mainpc = "probe_failed"
  /\ mainpc' = "exited"
  /\ exit_status' = 1
  /\ UNCHANGED <<probe_i, listenerVars, flusherVars, bufferVars, storageVars,
                 gateway, handler_errors, sourceVars>>

\* ------------------------------------------------------------ tick source
\* Publish as it would be if the transport kept what was published during
\* an outage for the next subscription.
Publish_Replays(ch, data) ==
  /\ Alive
  /\ next_id <= MaxMsgs
  /\ next_id' = next_id + 1
  /\ LET m == [type |-> "message", channel |-> ChannelWire[ch], data |-> data,
               id |-> next_id]
     IN /\ sock' = Append(sock, m)
        /\ lost' = IF Subscribed THEN lost ELSE lost \cup {m.id}
  /\ UNCHANGED <<mainVars, lpc, lmsg, ltick, delivered, cpc, flusherVars,
                 bufferVars, storageVars, gateway, handler_errors>>

\* A publish on channel ch.  The transport hands the message to the
\* subscription if there is one at this moment and drops it otherwise.
Publish(ch, data) ==
  /\ Alive
  /\ next_id <= MaxMsgs
  /\ next_id' = next_id + 1
  /\ LET m == [type |-> "message", channel |-> ChannelWire[ch], data |-> data,
               id |-> next_id]
     IN /\ sock' = IF Subscribed THEN Append(sock, m) ELSE sock
        /\ lost' = IF Subscribed THEN lost ELSE lost \cup {m.id}
  /\ UNCHANGED <<mainVars, lpc, lmsg, ltick, delivered, cpc, flusherVars,
                 bufferVars, storageVars, gateway, handler_errors>>

\* ------------------------------------------------------------ listener
\* listen(): redis.Redis(...), r.pubsub(), pubsub.subscribe(...).  On success
\* the transport confirms both subscriptions; any exception is caught by one
\* of the two except clauses of listen().
ListenConnect(ok) ==
  /\ Alive
  /\ lpc = "connect"
  /\ IF ok
       THEN /\ lpc' = "listen"
            /\ sock' = <<SubscribeMsg(NASDAQ), SubscribeMsg(NYSE)>>
       ELSE /\ lpc' = "delay"
            /\ sock' = <<>>
  /\ UNCHANGED <<mainVars, lmsg, ltick, delivered, flusherVars, bufferVars,
                 storageVars, gateway, handler_errors, sourceVars>>

\* The handler registered for the channel of message m, if any.
HasHandler(m) == \E ch \in Channels : ChannelWire[ch] = m.channel

\* pubsub.listen() pulls the next message.  A message on a channel with a
\* registered handler is passed to that handler and not yielded; anything
\* else is yielded to the for loop, which calls message_handler for type
\* 'message' only.
ListenReceive ==
  /\ Alive
  /\ lpc = "listen"
  /\ sock # <<>>
  /\ LET m == Head(sock)
         called == \/ m.type = "message" /\ HasHandler(m)
                   \/ m.type = "message" /\ ~HasHandler(m)
     IN /\ sock' = Tail(sock)
        /\ delivered' = IF m.type = "message" THEN Append(delivered, m)
                                              ELSE delivered
        /\ IF called
             THEN lpc' = "handle" /\ lmsg' = m
             ELSE lpc' = "listen" /\ lmsg' = lmsg
  /\ UNCHANGED <<mainVars, ltick, flusherVars, bufferVars, storageVars,
                 gateway, handler_errors, sourceVars>>

\* The connection breaks while listen() blocks: the read raises, the except
\* clause prints and sleeps.  What the transport had queued is gone.
ListenDisconnect ==
  /\ Alive
  /\ lpc = "listen"
  /\ lpc' = "delay"
  /\ sock' = <<>>
  /\ UNCHANGED <<mainVars, lmsg, ltick, delivered, flusherVars, bufferVars,
                 storageVars, gateway, handler_errors, sourceVars>>

\* ListenDelay as it would be if listen() returned after the except clause.
ListenDelay_Returns ==
  /\ Alive
  /\ lpc = "delay"
  /\ lpc' = "idle"
  /\ UNCHANGED <<mainVars, sock, lmsg, ltick, delivered, flusherVars,
                 bufferVars, storageVars, gateway, handler_errors, sourceVars>>

\* time.sleep(3) is over, the while loop of listen() starts again.
ListenDelay ==
  /\ Alive
  /\ lpc = "delay"
  /\ lpc' = "connect"
  /\ UNCHANGED <<mainVars, sock, lmsg, ltick, delivered, flusherVars,
                 bufferVars, storageVars, gateway, handler_errors, sourceVars>>

\* HandlerParse as it would be if message_handler let the exception out:
\* it reaches the except clauses of listen(), which reconnect.
HandlerParse_Propagates ==
  /\ Alive
  /\ lpc = "handle"
  /\ LET p == ParseMessage(lmsg)
     IN IF p.ok
          THEN /\ ltick' = p.tick
               /\ lpc' = "lock"
               /\ UNCHANGED <<lmsg, handler_errors, sock>>
          ELSE /\ handler_errors' = Append(handler_errors, lmsg.id)
               /\ lpc' = "delay"
               /\ sock' = <<>>
               /\ lmsg' = NoMsg
               /\ UNCHANGED ltick
  /\ UNCHANGED <<mainVars, delivered, flusherVars, bufferVars,
                 storageVars, gateway, sourceVars>>

\* message_handler: decode and parse.  Any exception ends the call in the
\* except clause, which prints and returns.
HandlerParse ==
  /\ Alive
  /\ lpc = "handle"
  /\ LET p == ParseMessage(lmsg)
     IN IF p.ok
          THEN /\ ltick' = p.tick
               /\ lpc' = "lock"
               /\ UNCHANGED <<lmsg, handler_errors>>
          ELSE /\ handler_errors' = Append(handler_errors, lmsg.id)
               /\ lpc' = "listen"
               /\ lmsg' = NoMsg
               /\ UNCHANGED ltick
  /\ UNCHANGED <<mainVars, sock, delivered, flusherVars, bufferVars,
                 storageVars, gateway, sourceVars>>

\* HandlerLock as it would be if the with statement did not wait for the lock.
HandlerLock_NoWait ==
  /\ Alive
  /\ lpc = "lock"
  /\ buffer_lock' = "listener"
  /\ lpc' = "append"
  /\ UNCHANGED <<mainVars, sock, lmsg, ltick, delivered, flusherVars,
                 batch_buffer, appended, drained, appended_since_drain,
                 last_drain, storageVars, gateway, handler_errors, sourceVars>>

\* message_handler: with buffer_lock (acquire)
HandlerLock ==
  /\ Alive
  /\ lpc = "lock"
  /\ buffer_lock = "free"
  /\ buffer_lock' = "listener"
  /\ lpc' = "append"
  /\ UNCHANGED <<mainVars, sock, lmsg, ltick, delivered, flusherVars,
                 batch_buffer, appended, drained, appended_since_drain,
                 last_drain, storageVars, gateway, handler_errors, sourceVars>>

\* HandlerAppend as it would be if the forward were inside the with block.
HandlerAppend_KeepsLock ==
  /\ Alive
  /\ lpc = "append"
  /\ batch_buffer' = Append(batch_buffer, ltick)
  /\ buffer_lock' = buffer_lock
  /\ appended' = Append(appended, ltick)
  /\ appended_since_drain' = TRUE
  /\ lpc' = "forward"
  /\ UNCHANGED <<mainVars, sock, lmsg, ltick, delivered, flusherVars,
                 drained, last_drain, storageVars, gateway, handler_errors,
                 sourceVars>>

\* HandlerAppend as it would be with batch_buffer.insert(0, ...).
HandlerAppend_InFront ==
  /\ Alive
  /\ lpc = "append"
  /\ batch_buffer' = <<ltick>> \o batch_buffer
  /\ buffer_lock' = "free"
  /\ appended' = Append(appended, ltick)
  /\ appended_since_drain' = TRUE
  /\ lpc' = "forward"
  /\ UNCHANGED <<mainVars, sock, lmsg, ltick, delivered, flusherVars,
                 drained, last_drain, storageVars, gateway, handler_errors,
                 sourceVars>>

\* message_handler: batch_buffer.append(...), end of the with block
HandlerAppend ==
  /\ Alive
  /\ lpc = "append"
  /\ batch_buffer' = Append(batch_buffer, ltick)
  /\ buffer_lock' = "free"
  /\ appended' = Append(appended, ltick)
  /\ appended_since_drain' = TRUE
  /\ lpc' = "forward"
  /\ UNCHANGED <<mainVars, sock, lmsg, ltick, delivered, flusherVars,
                 drained, last_drain, storageVars, gateway, handler_errors,
                 sourceVars>>

\* HandlerForward as it would be if a failed post were tried again.
HandlerForward_Retries(outcome) ==
  /\ Alive
  /\ lpc = "forward"
  /\ gateway' = Append(gateway,
        [request |-> CentrifugoPayload(ltick.exchange, ForwardData(ltick)),
         id |-> ltick.id])
  /\ IF outcome = "ok"
       THEN lpc' = "listen" /\ lmsg' = NoMsg
       ELSE lpc' = "forward" /\ lmsg' = lmsg
  /\ UNCHANGED <<mainVars, sock, ltick, delivered, flusherVars, bufferVars,
                 storageVars, handler_errors, sourceVars>>

\* forward_to_centrifugo: one requests.post and raise_for_status.  On
\* success the handler returns to the receive loop; a RequestException
\* (network error, or the HTTPError of raise_for_status) enters the except
\* clause.
HandlerForward(outcome) ==
  /\ Alive
  /\ lpc = "forward"
  /\ gateway' = Append(gateway,
        [request |-> CentrifugoPayload(ltick.exchange, ForwardData(ltick)),
         id |-> ltick.id])
  /\ IF outcome = "ok"
       THEN lpc' = "listen" /\ lmsg' = NoMsg
       ELSE lpc' = "forward_failed" /\ lmsg' = lmsg
  /\ UNCHANGED <<mainVars, sock, ltick, delivered, flusherVars, bufferVars,
                 storageVars, handler_errors, sourceVars>>

\* The except clause of forward_to_centrifugo: print, and the handler
\* returns to the receive loop.
HandlerForwardFailed ==
  /\ Alive
  /\ lpc = "forward_failed"
  /\ lpc' = "listen"
  /\ lmsg' = NoMsg
  /\ UNCHANGED <<mainVars, sock, ltick, delivered, flusherVars, bufferVars,
                 storageVars, gateway, handler_errors, sourceVars>>

\* ------------------------------------------------------------ flusher
SuccessEvent ==
  [event |-> "insert_success", metric |-> "insert_latency",
   unit |-> "seconds", service |-> "subscriber"]

FailureEvent ==
  [event |-> "postgres_insert_failed", metric |-> "", unit |-> "",
   service |-> "subscriber"]

\* time.sleep(5) is over
FlushSleep ==
  /\ Alive
  /\ fpc = "sleep"
  /\ fpc' = "lock"
  /\ UNCHANGED <<mainVars, listenerVars, to_insert, bufferVars, storageVars,
                 gateway, handler_errors, sourceVars>>

\* FlushLock as it would be if the flush thread did not wait for the lock.
FlushLock_NoWait ==
  /\ Alive
  /\ fpc = "lock"
  /\ buffer_lock' = "flusher"
  /\ fpc' = "drain"
  /\ UNCHANGED <<mainVars, listenerVars, to_insert, batch_buffer, appended,
                 drained, appended_since_drain, last_drain, storageVars,
                 gateway, handler_errors, sourceVars>>

\* with buffer_lock (acquire)
FlushLock ==
  /\ Alive
  /\ fpc = "lock"
  /\ buffer_lock = "free"
  /\ buffer_lock' = "flusher"
  /\ fpc' = "drain"
  /\ UNCHANGED <<mainVars, listenerVars, to_insert, batch_buffer, appended,
                 drained, appended_since_drain, last_drain, storageVars,
                 gateway, handler_errors, sourceVars>>

\* FlushDrain as it would be if it waited for a second record.
FlushDrain_WaitsForTwo ==
  /\ Alive
  /\ fpc = "drain"
  /\ IF Len(batch_buffer) < 2
       THEN /\ fpc' = "sleep"
            /\ buffer_lock' = "free"
            /\ appended_since_drain' = FALSE
            /\ last_drain' = "empty"
            /\ UNCHANGED to_insert
       ELSE /\ to_insert' = batch_buffer
            /\ fpc' = "clear"
            /\ UNCHANGED <<buffer_lock, appended_since_drain, last_drain>>
  /\ UNCHANGED <<mainVars, listenerVars, batch_buffer, appended, drained,
                 storageVars, gateway, handler_errors, sourceVars>>

\* FlushDrain as it would be without the test for an empty buffer.
FlushDrain_NoCheck ==
  /\ Alive
  /\ fpc = "drain"
  /\ to_insert' = batch_buffer
  /\ fpc' = "clear"
  /\ UNCHANGED <<buffer_lock, appended_since_drain, last_drain>>
  /\ UNCHANGED <<mainVars, listenerVars, batch_buffer, appended, drained,
                 storageVars, gateway, handler_errors, sourceVars>>

\* The with block, first half: on an empty buffer continue, which leaves
\* the block and releases the lock; otherwise to_insert = batch_buffer[:]
FlushDrain ==
  /\ Alive
  /\ fpc = "drain"
  /\ IF batch_buffer = <<>>
       THEN /\ fpc' = "sleep"
            /\ buffer_lock' = "free"
            /\ appended_since_drain' = FALSE
            /\ last_drain' = "empty"
            /\ UNCHANGED to_insert
       ELSE /\ to_insert' = batch_buffer
            /\ fpc' = "clear"
            /\ UNCHANGED <<buffer_lock, appended_since_drain, last_drain>>
  /\ UNCHANGED <<mainVars, listenerVars, batch_buffer, appended, drained,
                 storageVars, gateway, handler_errors, sourceVars>>

\* FlushClear as it would be without batch_buffer.clear().
FlushClear_NoClear ==
  /\ Alive
  /\ fpc = "clear"
  /\ batch_buffer' = batch_buffer
  /\ drained' = Append(drained, to_insert)
  /\ buffer_lock' = "free"
  /\ appended_since_drain' = FALSE
  /\ last_drain' = "batch"
  /\ fpc' = "connect"
  /\ UNCHANGED <<mainVars, listenerVars, to_insert, appended, storageVars,
                 gateway, handler_errors, sourceVars>>

\* The with block, second half: batch_buffer.clear(), and the lock is
\* released at the end of the block.  The drain has returned to_insert.
FlushClear ==
  /\ Alive
  /\ fpc = "clear"
  /\ batch_buffer' = <<>>
  /\ drained' = Append(drained, to_insert)
  /\ buffer_lock' = "free"
  /\ appended_since_drain' = FALSE
  /\ last_drain' = "batch"
  /\ fpc' = "connect"
  /\ UNCHANGED <<mainVars, listenerVars, to_insert, appended, storageVars,
                 gateway, handler_errors, sourceVars>>

\* FlushFailed as it would be if the except clause put the batch back.
FlushFailed_Rebuffer(batch) ==
  /\ logs' = Append(logs, FailureEvent)
  /\ discarded' = discarded \cup Ids(batch)
  /\ batch_buffer' = batch \o batch_buffer
  /\ fpc' = "sleep"

\* FlushFailed as it would be if the exception ended the thread.
FlushFailed_Dies(batch) ==
  /\ logs' = Append(logs, FailureEvent)
  /\ discarded' = discarded \cup Ids(batch)
  /\ batch_buffer' = batch_buffer
  /\ fpc' = "idle"

\* The except clause of insert_batch_to_postgres, reached with the insert
\* of batch not committed: one failure event, nothing is done with the
\* batch, and the while loop goes on.
FlushFailed(batch) ==
  /\ logs' = Append(logs, FailureEvent)
  /\ discarded' = discarded \cup Ids(batch)
  /\ batch_buffer' = batch_buffer
  /\ fpc' = "sleep"

flushFrame == <<buffer_lock, appended, drained, appended_since_drain, last_drain>>

\* psycopg2.connect(...)
FlushConnect(ok) ==
  /\ Alive
  /\ fpc = "connect"
  /\ pg_calls' = pg_calls + 1
  /\ IF ok
       THEN fpc' = "executemany" /\ UNCHANGED <<logs, discarded, batch_buffer>>
       ELSE FlushFailed(to_insert)
  /\ UNCHANGED <<mainVars, listenerVars, to_insert, flushFrame, db, executed,
                 gateway, handler_errors, sourceVars>>

\* cur.executemany(INSERT ..., to_insert)
FlushExecutemany(ok) ==
  /\ Alive
  /\ fpc = "executemany"
  /\ pg_calls' = pg_calls + 1
  /\ executed' = Append(executed, Rows(to_insert))
  /\ IF ok
       THEN fpc' = "commit" /\ UNCHANGED <<logs, discarded, batch_buffer>>
       ELSE FlushFailed(to_insert)
  /\ UNCHANGED <<mainVars, listenerVars, to_insert, flushFrame, db, gateway,
                 handler_errors, sourceVars>>

\* conn.commit(): the rows of the transaction become durable, or the
\* transaction is lost.
FlushCommit(ok) ==
  /\ Alive
  /\ fpc = "commit"
  /\ pg_calls' = pg_calls + 1
  /\ IF ok
       THEN /\ db' = db \o Rows(to_insert)
            /\ fpc' = "close"
            /\ UNCHANGED <<logs, discarded, batch_buffer>>
       ELSE /\ FlushFailed(to_insert)
            /\ UNCHANGED db
  /\ UNCHANGED <<mainVars, listenerVars, to_insert, flushFrame, executed,
                 gateway, handler_errors, sourceVars>>

\* cur.close(), conn.close(), then the success event; an exception of close
\* lands in the same except clause, with the batch already committed.
FlushClose(ok) ==
  /\ Alive
  /\ fpc = "close"
  /\ pg_calls' = pg_calls + 1
  /\ IF ok
       THEN /\ logs' = Append(logs, SuccessEvent)
            /\ fpc' = "sleep"
            /\ UNCHANGED <<discarded, batch_buffer>>
       ELSE FlushFailed(<<>>)
  /\ UNCHANGED <<mainVars, listenerVars, to_insert, flushFrame, db, executed,
                 gateway, handler_errors, sourceVars>>

\* ------------------------------------------------------------ the system
\* A step of one of the three threads of the service, or of the transport
\* under the listener.
ServiceStep ==
  \/ MainStartFlusher
  \/ \E outcome \in {"ok", "ConnectionError", "OtherError"} : ProbePing(outcome)
  \/ MainExit
  \/ \E ok \in BOOLEAN : ListenConnect(ok)
  \/ ListenReceive
  \/ ListenDisconnect
  \/ ListenDelay
  \/ HandlerParse
  \/ HandlerLock
  \/ HandlerAppend
  \/ \E outcome \in {"ok", "network_error", "http_error"} : HandlerForward(outcome)
  \/ HandlerForwardFailed
  \/ FlushSleep
  \/ FlushLock
  \/ FlushDrain
  \/ FlushClear
  \/ \E ok \in BOOLEAN : FlushConnect(ok)
  \/ \E ok \in BOOLEAN : FlushExecutemany(ok)
  \/ \E ok \in BOOLEAN : FlushCommit(ok)
  \/ \E ok \in BOOLEAN : FlushClose(ok)

Next ==
  \/ ServiceStep
  \/ \E ch \in Channels, data \in MainData : Publish(ch, data)

Spec == Init /\ [][Next]_vars

\* The service under a source that publishes the documented payload on one
\* channel, with the threads scheduled fairly and time.sleep returning: a
\* step of the flush thread that stays possible is taken, and the listener
\* leaves its critical section.
FairNext ==
  \/ ServiceStep
  \/ Publish(NASDAQ, PayloadWire[PayloadGood])

FairSpec ==
  /\ Init
  /\ [][FairNext]_vars
  /\ WF_vars(FlushSleep)
  /\ WF_vars(FlushLock)
  /\ WF_vars(FlushDrain)
  /\ WF_vars(FlushClear)
  /\ WF_vars(HandlerAppend)

\* FairSpec, and the storage engine answers every call, so that the flush
\* thread keeps firing.
FiringSpec ==
  /\ FairSpec
  /\ WF_vars(\E ok \in BOOLEAN : FlushConnect(ok))
  /\ WF_vars(\E ok \in BOOLEAN : FlushExecutemany(ok))
  /\ WF_vars(\E ok \in BOOLEAN : FlushCommit(ok))
  /\ WF_vars(\E ok \in BOOLEAN : FlushClose(ok))

\* FairSpec, and the time.sleep(3) of the listener returns.
ReconnectSpec == FairSpec /\ WF_vars(ListenDelay)

\* ------------------------------------------------------ append harness
\* The critical section of message_handler run by NumCallers threads at
\* once, each appending one tuple of its own, next to the flush thread.
CallerTick(c) ==
  [stock |-> <<"A">>, exchange |-> NASDAQ, price |-> [num |-> c, exp |-> 0],
   timestamp |-> [num |-> c, exp |-> 0], id |-> c]

\* CallerLock as it would be if the with statement did not wait for the lock.
CallerLock_NoWait(c) ==
  /\ cpc[c] = "lock"
  /\ buffer_lock' = CallerName(c)
  /\ cpc' = [cpc EXCEPT ![c] = "append"]
  /\ UNCHANGED <<mainVars, listenerVars, flusherVars, batch_buffer, appended,
                 drained, appended_since_drain, last_drain, storageVars,
                 gateway, handler_errors, next_id, lost>>

\* with buffer_lock (acquire), by caller c
CallerLock(c) ==
  /\ cpc[c] = "lock"
  /\ buffer_lock = "free"
  /\ buffer_lock' = CallerName(c)
  /\ cpc' = [cpc EXCEPT ![c] = "append"]
  /\ UNCHANGED <<mainVars, listenerVars, flusherVars, batch_buffer, appended,
                 drained, appended_since_drain, last_drain, storageVars,
                 gateway, handler_errors, next_id, lost>>

\* batch_buffer.append(...), end of the with block, by caller c
CallerAppend(c) ==
  /\ cpc[c] = "append"
  /\ batch_buffer' = Append(batch_buffer, CallerTick(c))
  /\ buffer_lock' = "free"
  /\ appended' = Append(appended, CallerTick(c))
  /\ appended_since_drain' = TRUE
  /\ cpc' = [cpc EXCEPT ![c] = "done"]
  /\ UNCHANGED <<mainVars, listenerVars, flusherVars, drained, last_drain,
                 storageVars, gateway, handler_errors, next_id, lost>>

\* The service up and idle, every caller about to enter the critical section.
AppendInit ==
  /\ mainpc = "running"
  /\ probe_i = 0
  /\ exit_status = -1
  /\ lpc = "listen"
  /\ sock = <<>>
  /\ lmsg = NoMsg
  /\ ltick = NoTick
  /\ fpc = "sleep"
  /\ to_insert = <<>>
  /\ batch_buffer = <<>>
  /\ buffer_lock = "free"
  /\ db = <<>>
  /\ pg_calls = 0
  /\ executed = <<>>
  /\ gateway = <<>>
  /\ logs = <<>>
  /\ handler_errors = <<>>
  /\ next_id = 1
  /\ lost = {}
  /\ appended = <<>>
  /\ drained = <<>>
  /\ discarded = {}
  /\ appended_since_drain = FALSE
  /\ last_drain = "none"
  /\ delivered = <<>>
  /\ cpc = [c \in Callers |-> "lock"]

AppendNext ==
  \/ \E c \in Callers : CallerLock(c)
  \/ \E c \in Callers : CallerAppend(c)
  \/ FlushSleep
  \/ FlushLock
  \/ FlushDrain
  \/ FlushClear

AppendSpec == AppendInit /\ [][AppendNext]_vars

\* ------------------------------------------------------ one message
\* The service up, message_handler just called with one message, which is
\* any of the payloads the transport can carry on either channel.
ParserInit ==
  \E ch \in Channels, data \in WireData :
    LET m == [type |-> "message", channel |-> ChannelWire[ch], data |-> data,
              id |-> 1]
    IN /\ mainpc = "running"
       /\ probe_i = 0
       /\ exit_status = -1
       /\ lpc = "handle"
       /\ sock = <<>>
       /\ lmsg = m
       /\ ltick = NoTick
       /\ fpc = "sleep"
       /\ to_insert = <<>>
       /\ batch_buffer = <<>>
       /\ buffer_lock = "free"
       /\ db = <<>>
       /\ pg_calls = 0
       /\ executed = <<>>
       /\ gateway = <<>>
       /\ logs = <<>>
       /\ handler_errors = <<>>
       /\ next_id = 2
       /\ lost = {}
       /\ appended = <<>>
       /\ drained = <<>>
       /\ discarded = {}
       /\ appended_since_drain = FALSE
       /\ last_drain = "none"
       /\ delivered = <<m>>
       /\ cpc = [c \in Callers |-> "idle"]

ParserNext ==
  \/ HandlerParse
  \/ HandlerLock
  \/ HandlerAppend
  \/ \E outcome \in {"ok", "network_error", "http_error"} : HandlerForward(outcome)
  \/ HandlerForwardFailed
  \/ FlushSleep
  \/ FlushLock
  \/ FlushDrain
  \/ FlushClear
  \/ \E ok \in BOOLEAN : FlushConnect(ok)
  \/ \E ok \in BOOLEAN : FlushExecutemany(ok)
  \/ \E ok \in BOOLEAN : FlushCommit(ok)
  \/ \E ok \in BOOLEAN : FlushClose(ok)

ParserSpec == ParserInit /\ [][ParserNext]_vars

\* ------------------------------------------------------------ properties
\* Number of places of seq that hold the tuple made from message id.
Occurrences(seq, id) == Cardinality({i \in DOMAIN seq : seq[i].id = id})

\* C1: under any interleaving of appends and drains, every appended tuple is
\* in exactly one place: the buffer or one drained batch (so no two drains
\* return the same tuple), nothing else is in those places, and once a drain
\* is over with no append after it, every tuple appended so far is in a
\* drained batch.
C1_ExactlyOnePlace ==
  LET out == Flatten(drained)
      all == out \o batch_buffer
  IN /\ \A id \in Ids(appended) : Occurrences(all, id) = 1
     /\ Ids(all) \subseteq Ids(appended)
     /\ ~appended_since_drain => Ids(appended) \subseteq Ids(out)

\* Two different drains have each returned a batch.
C1_Witness == Len(drained) = 2 /\ drained[1] # <<>> /\ drained[2] # <<>>

AllDone == \A c \in Callers : cpc[c] = "done"

\* C2: when every caller has appended and one drain has emptied the buffer
\* after that, the drained batch holds the tuple of every caller exactly
\* once and nothing else.
C2_SingleDrainIsUnion ==
  (AllDone /\ Len(drained) = 1 /\ batch_buffer = <<>>) =>
     /\ Len(drained[1]) = NumCallers
     /\ \A c \in Callers : Occurrences(drained[1], c) = 1
     /\ \A i \in DOMAIN drained[1] : drained[1][i] = CallerTick(drained[1][i].id)

\* All callers appended, then one drain took everything.
C2_Witness ==
  AllDone /\ Len(drained) = 1 /\ batch_buffer = <<>> /\ Len(drained[1]) = NumCallers

\* What was appended to the buffer since the last drain returned a batch.
AccumulatedSince == SubSeq(appended, Len(Flatten(drained)) + 1, Len(appended))

\* C3: a drain returns everything accumulated since the previous one and
\* leaves the buffer empty; a drain that follows a drain with no append in
\* between returns nothing: the thread goes back to sleep, no batch, no
\* failure event.
C3_SecondDrainEmpty ==
  [][ /\ (fpc = "clear" /\ fpc' # "clear") =>
           /\ to_insert' = AccumulatedSince
           /\ drained' = Append(drained, AccumulatedSince)
           /\ batch_buffer' = <<>>
      /\ (fpc = "drain" /\ fpc' # "drain" /\ ~appended_since_drain) =>
           /\ fpc' = "sleep"
           /\ drained' = drained
           /\ batch_buffer' = <<>>
           /\ logs' = logs
    ]_vars

\* A drain returned a batch and the last drain, after it, found nothing.
C3_Witness == drained # <<>> /\ last_drain = "empty" /\ batch_buffer = <<>>

StoragePcs == {"connect", "executemany", "commit", "close"}

\* C4: a firing that finds the buffer empty goes back to sleep without a
\* call to the storage engine and leaves the buffer as it is; the storage
\* engine is only ever called with a batch that is not empty.
C4_EmptyFlushNoStorage ==
  /\ [][ (fpc = "drain" /\ batch_buffer = <<>> /\ fpc' # "drain") =>
           /\ fpc' = "sleep"
           /\ pg_calls' = pg_calls
           /\ executed' = executed
           /\ db' = db
           /\ batch_buffer' = batch_buffer
       ]_vars
  /\ [](fpc \in StoragePcs => to_insert # <<>>)
  /\ [](\A i \in DOMAIN executed : executed[i] # <<>>)

\* A firing found the buffer empty and is over.
C4_Witness == last_drain = "empty" /\ fpc = "sleep" /\ pg_calls = 0

\* C5: the tuples of a batch whose insert failed are neither in the buffer
\* again nor in the table, they are in no batch the flush thread is
\* writing, and no executemany after the failed one was handed them.
C5_FailedBatchDiscarded ==
  \A id \in discarded :
    /\ id \notin Ids(batch_buffer)
    /\ id \notin Ids(db)
    /\ fpc \in {"clear"} \cup StoragePcs => id \notin Ids(to_insert)
    /\ Occurrences(Flatten(executed), id) <= 1
    /\ Occurrences(Flatten(drained), id) = 1

\* A batch failed and a later batch was committed.
C5_Witness ==
  \E id \in discarded : \E i \in DOMAIN db : db[i].id > id

\* The batch the last drain returned, read off the history of appends.
LastBatch ==
  SubSeq(appended, Len(Flatten(drained)) - Len(drained[Len(drained)]) + 1,
         Len(Flatten(drained)))

LastFlushFailed == logs # <<>> /\ logs[Len(logs)] = FailureEvent

\* C6: a failed flush leaves the flush thread in its loop, asleep until the
\* next firing, and the thread does fire again; when the commit of a cycle
\* succeeds, the table gains exactly the tuples appended between the
\* previous drain and the drain of this cycle, in order.
C6_FlushSurvivesFailure ==
  /\ [][ /\ (fpc \in StoragePcs /\ logs' = Append(logs, FailureEvent)) =>
              (fpc' = "sleep" /\ Alive')
         /\ (fpc = "commit" /\ fpc' = "close") =>
              db' = db \o Rows(LastBatch)
       ]_vars
  /\ [](fpc # "idle" \/ mainpc = "start")
  /\ (LastFlushFailed /\ fpc = "sleep") ~> (fpc = "drain")

\* After a failed flush a later cycle committed what was appended since.
C6_Witness ==
  /\ Len(logs) >= 2
  /\ logs[1] = FailureEvent
  /\ logs[Len(logs)] = SuccessEvent
  /\ discarded # {}
  /\ db # <<>>

\* What the well-formed payloads say, written out by hand.
Meaning ==
  { [payload |-> PayloadGood, stock |-> <<"A", "A", "P", "L">>,
     price |-> [num |-> 15, exp |-> 1], timestamp |-> [num |-> 2, exp |-> 0]],
    [payload |-> PayloadGood2, stock |-> <<"A">>,
     price |-> [num |-> -3, exp |-> 0], timestamp |-> [num |-> 25, exp |-> 2]] }

\* Message m carries payload p on channel ch.
Carries(m, ch, p) == m.channel = ChannelWire[ch] /\ m.data = PayloadWire[p]

\* C7: for a message with a well-formed payload received on channel ch, the
\* handler produces the tuple (symbol, ch, price, timestamp) the payload
\* names, that tuple and nothing else is appended, the next drain returns
\* exactly it, and the storage write is handed a row with those four values.
C7_WellFormedEndToEnd ==
  \A w \in Meaning, ch \in Channels :
    Carries(delivered[1], ch, w.payload) =>
      LET T == [stock |-> w.stock, exchange |-> ch, price |-> w.price,
                timestamp |-> w.timestamp, id |-> 1]
          R == [stock_name |-> w.stock, exchange_name |-> ch,
                price |-> w.price, timestamp |-> w.timestamp, id |-> 1]
      IN /\ handler_errors = <<>>
         /\ lpc \in {"lock", "append", "forward", "forward_failed"} => ltick = T
         /\ lpc \in {"forward", "forward_failed", "listen"} => appended = <<T>>
         /\ drained # <<>> => drained = << <<T>> >>
         /\ \A i \in DOMAIN executed : executed[i] = <<R>>
         /\ db \in {<<>>, <<R>>}
         /\ fpc = "close" => db = <<R>>

\* The documented example on NASDAQ went all the way into the table.
C7_Witness ==
  /\ Carries(delivered[1], NASDAQ, PayloadGood)
  /\ executed # <<>>
  /\ db # <<>>

\* C8: a message whose payload misses the colon, misses the parentheses,
\* has a malformed pair or a field that is no number produces no tuple, and
\* the handler returns to the listener.
C8_MalformedRejected ==
  \A ch \in Channels :
    \A p \in MissingColon \cup MissingParens \cup MalformedPair \cup NonNumeric :
      Carries(delivered[1], ch, p) =>
        /\ appended = <<>>
        /\ gateway = <<>>
        /\ lpc \in {"handle", "listen"}
        /\ lpc = "listen" => handler_errors = <<1>>

\* The handler is through with the i-th delivered message.
HandlingDone(i) ==
  \/ i < Len(delivered)
  \/ lpc \notin {"handle", "lock", "append", "forward", "forward_failed"}

\* C9: the step in which parsing fails leaves the buffer, the gateway and
\* the queued messages alone and puts the listener back into its receive
\* loop, still subscribed; the failed message never reaches the buffer or
\* the gateway; and every well-formed message the listener has handled is
\* appended, whatever failed before it.
C9_ParseFailureIsolated ==
  /\ [][ handler_errors' # handler_errors =>
           /\ lpc' = "listen"
           /\ batch_buffer' = batch_buffer
           /\ appended' = appended
           /\ gateway' = gateway
           /\ sock' = sock
       ]_vars
  /\ [](\A i \in DOMAIN handler_errors :
          /\ handler_errors[i] \notin Ids(appended)
          /\ Occurrences(gateway, handler_errors[i]) = 0)
  /\ [](\A i \in DOMAIN delivered :
          (HandlingDone(i) /\ delivered[i].data = PayloadWire[PayloadGood])
             => delivered[i].id \in Ids(appended))
  /\ [](\A i \in DOMAIN delivered :
          (HandlingDone(i) /\ delivered[i].data = PayloadWire[PayloadBadPrice])
             => \E k \in DOMAIN handler_errors : handler_errors[k] = delivered[i].id)

\* A message failed to parse and a message delivered after it was appended.
C9_Witness ==
  \E i \in DOMAIN handler_errors : \E k \in DOMAIN appended :
     appended[k].id > handler_errors[i]

\* The request the gateway has to see for the documented payload on ch.
GoodRequest(ch) ==
  [method |-> "publish",
   params |-> [channel |-> ch,
               data |-> [stock |-> <<"A", "A", "P", "L">>,
                         price |-> [num |-> 15, exp |-> 1],
                         timestamp |-> [num |-> 2, exp |-> 0]]]]

\* C10: every delivered message is delivered once; a well-formed one the
\* handler is through with has exactly one tuple in the history of appends
\* and exactly one gateway request, on its own channel and with its own
\* stock, price and timestamp; no request is made for anything else; and
\* this holds whatever the flushes do.
C10_OneAppendOneForward ==
  /\ \A i \in DOMAIN delivered :
       /\ Occurrences(delivered, delivered[i].id) = 1
       /\ Occurrences(appended, delivered[i].id) <= 1
       /\ Occurrences(gateway, delivered[i].id) <= 1
       /\ \A ch \in Channels :
            (HandlingDone(i) /\ Carries(delivered[i], ch, PayloadGood)) =>
               /\ Occurrences(appended, delivered[i].id) = 1
               /\ \E k \in DOMAIN gateway :
                     /\ gateway[k].id = delivered[i].id
                     /\ gateway[k].request = GoodRequest(ch)
  /\ \A k \in DOMAIN gateway :
       \E i \in DOMAIN delivered :
          /\ delivered[i].id = gateway[k].id
          /\ delivered[i].data = PayloadWire[PayloadGood]

\* Two messages were forwarded, one per channel, and a flush failed.
C10_Witness ==
  /\ Len(gateway) = 2
  /\ gateway[1].request.params.channel # gateway[2].request.params.channel
  /\ discarded # {}

\* C11: while the handler is in the except clause of a failed gateway call,
\* the tick's record is where the append put it (once, in the buffer or in
\* a drained batch), the gateway saw one request for it and the listener is
\* subscribed; the except clause goes back to the receive loop and touches
\* neither the gateway nor the buffer nor the queued messages; no tick is
\* ever posted twice; and every well-formed message the handler is through
\* with was appended and posted once, whatever failed before it.
C11_ForwardFailureDropped ==
  /\ [](lpc = "forward_failed" =>
          /\ Occurrences(appended, ltick.id) = 1
          /\ Occurrences(Flatten(drained) \o batch_buffer, ltick.id) = 1
          /\ Occurrences(gateway, ltick.id) = 1
          /\ Subscribed)
  /\ [][ (lpc = "forward_failed" /\ lpc' # lpc) =>
           /\ lpc' = "listen"
           /\ gateway' = gateway
           /\ batch_buffer' = batch_buffer
           /\ appended' = appended
           /\ sock' = sock
       ]_vars
  /\ [](\A k \in DOMAIN gateway : Occurrences(gateway, gateway[k].id) = 1)
  /\ [](\A i \in DOMAIN delivered :
          (HandlingDone(i) /\ delivered[i].data = PayloadWire[PayloadGood]) =>
             /\ Occurrences(appended, delivered[i].id) = 1
             /\ Occurrences(gateway, delivered[i].id) = 1)

\* The forward of the second tick failed after the flush thread had taken
\* its record out of the buffer.
C11_Witness ==
  /\ lpc = "forward_failed"
  /\ Len(gateway) = 2
  /\ ltick.id \in Ids(Flatten(drained))

\* Where the listener thread can be once start_subscriber has started it.
ListenerPcs ==
  {"connect", "listen", "handle", "lock", "append", "forward",
   "forward_failed", "delay"}

\* C12: once started the listener thread is always somewhere in its loop;
\* it enters the reconnect delay only from connecting or from the receive
\* loop, and then without a subscription; the only way out of the delay is
\* a new connection attempt; and a listener in the delay does attempt to
\* connect again, however often it has failed before.
C12_ListenerReconnects ==
  /\ [](mainpc = "running" => lpc \in ListenerPcs)
  /\ [][ /\ (lpc # "delay" /\ lpc' = "delay") =>
              (lpc \in {"connect", "listen"} /\ sock' = <<>>)
         /\ (lpc = "delay" /\ lpc' # "delay") => lpc' = "connect"
         /\ (lpc \in ListenerPcs) => (lpc' \in ListenerPcs)
       ]_vars
  /\ (lpc = "delay") ~> (lpc = "connect")

\* The listener is connecting again after it had been subscribed, had
\* handled a message and lost a later one in an outage.
C12_Witness ==
  /\ lpc = "connect"
  /\ delivered # <<>>
  /\ \E id \in lost : id > delivered[1].id

\* The identities of the messages in a sequence of transport messages.
MsgIds(seq) == {seq[i].id : i \in DOMAIN seq} \ {0}

\* C13: a message published while the listener has no subscription is
\* never queued, pulled, appended or forwarded, neither then nor after the
\* next subscription; a message published while the listener is subscribed
\* is queued behind the ones before it; a queued message leaves the queue
\* only by being pulled, unless the connection fails again; and every
\* well-formed message the handler is through with was appended and
\* forwarded once, before and after any outage.
C13_NoReplayAfterOutage ==
  /\ [](\A id \in lost :
          /\ id \notin MsgIds(sock)
          /\ id \notin MsgIds(delivered)
          /\ id \notin Ids(appended)
          /\ Occurrences(gateway, id) = 0)
  /\ [][ /\ (next_id' # next_id /\ ~Subscribed) =>
              (sock' = sock /\ lost' = lost \cup {next_id})
         /\ (next_id' # next_id /\ Subscribed) =>
              /\ lost' = lost
              /\ Len(sock') = Len(sock) + 1
              /\ SubSeq(sock', 1, Len(sock)) = sock
              /\ sock'[Len(sock')].id = next_id
         /\ (lpc' # "delay") =>
              MsgIds(sock) \subseteq MsgIds(sock') \cup MsgIds(delivered')
       ]_vars
  /\ [](\A i \in DOMAIN delivered :
          (HandlingDone(i) /\ delivered[i].data = PayloadWire[PayloadGood]) =>
             /\ Occurrences(appended, delivered[i].id) = 1
             /\ \E k \in DOMAIN gateway :
                  /\ gateway[k].id = delivered[i].id
                  /\ Occurrences(gateway, delivered[i].id) = 1
                  /\ \E ch \in Channels :
                       /\ delivered[i].channel = ChannelWire[ch]
                       /\ gateway[k].request = GoodRequest(ch))

\* The listener handled a message, lost the next one in an outage, and is
\* subscribed again with nothing queued.
C13_Witness ==
  /\ delivered # <<>>
  /\ \E id \in lost : id > delivered[1].id
  /\ lpc = "listen"
  /\ sock = <<>>

\* C14: every ping is one of the first `retries` attempts; a ping that
\* answers ends the probe at once and starts the listener; when the last
\* attempt has failed the process exits with status 1; the listener runs
\* only after a ping has answered, and a process that has exited has a
\* non-zero status and never started the listener.
C14_ReadinessProbe ==
  /\ [](probe_i \in 0..retries)
  /\ [](mainpc = "probe" => probe_i < retries)
  /\ [](mainpc = "probe_failed" => probe_i = retries)
  /\ [](lpc # "idle" => (mainpc = "running" /\ probe_i < retries))
  /\ [](mainpc \in {"probe_failed", "exited"} => lpc = "idle")
  /\ [](mainpc = "exited" <=> exit_status # -1)
  /\ [](exit_status \in {-1, 1})
  /\ [][ /\ (mainpc = "probe" /\ mainpc' = "running") =>
              (lpc' = "connect" /\ probe_i' = probe_i)
         /\ (mainpc = "running") => (mainpc' = "running" /\ probe_i' = probe_i)
         /\ (mainpc = "probe_failed" /\ mainpc' # mainpc) =>
              (mainpc' = "exited" /\ exit_status' = 1)
         /\ (mainpc = "exited") => (mainpc' = "exited" /\ lpc' = "idle")
       ]_vars

\* All five pings failed and the process has exited, the flush thread
\* having run in the meantime.
C14_Witness ==
  /\ mainpc = "exited"
  /\ probe_i = retries
  /\ exit_status = 1
  /\ lpc = "idle"
  /\ last_drain = "empty"

\* C15: the process ends only when the probe has used up its budget, and
\* neither worker thread ever ends while the process runs.
C15_OnlyReadinessFailureTerminates ==
  /\ mainpc = "exited" => probe_i = retries
  /\ (mainpc \in {"probe", "probe_failed", "running"}) => fpc # "idle"
  /\ mainpc = "running" => lpc \in ListenerPcs

\* The place of the message with identity id among the pulled messages.
ReceivedAt(id) == CHOOSE i \in DOMAIN delivered : delivered[i].id = id

\* The records of batch are in the order in which their messages were pulled.
InReceiveOrder(batch) ==
  \A a, b \in DOMAIN batch :
     a < b => ReceivedAt(batch[a].id) < ReceivedAt(batch[b].id)

\* C16: the buffer, the batch being taken out of it and every drained batch
\* hold their records in the order in which the listener pulled the
\* messages, and every executemany was handed the rows of the drained batch
\* of its cycle, one row per record, in the order of the batch.
C16_OrderWithinBatch ==
  /\ InReceiveOrder(batch_buffer)
  /\ fpc = "clear" => InReceiveOrder(to_insert)
  /\ \A j \in DOMAIN drained : InReceiveOrder(drained[j])
  /\ \A k \in DOMAIN executed :
       \E j \in DOMAIN drained :
          /\ Len(executed[k]) = Len(drained[j])
          /\ \A i \in DOMAIN executed[k] :
               /\ executed[k][i] = Row(drained[j][i])
               /\ executed[k][i].id = drained[j][i].id
  /\ fpc \in {"commit", "close"} =>
       executed[Len(executed)] = Rows(drained[Len(drained)])

\* An executemany was handed a batch of two records.
C16_Witness ==
  \E k \in DOMAIN executed :
     /\ Len(executed[k]) = 2
     /\ executed[k][1].id = delivered[1].id
     /\ executed[k][2].id = delivered[2].id

\* C17: the step that ends a firing of the flush thread prints exactly one
\* event, the success event when the insert of the firing was committed
\* and the failure event when it was not, and no other step prints one.
C17_OneEventPerFiring ==
  [][ /\ (fpc \in {"drain"} \cup StoragePcs /\ fpc' = "sleep") =>
           \/ logs' = Append(logs, SuccessEvent) /\ fpc = "close"
           \/ logs' = Append(logs, FailureEvent) /\ fpc # "close"
      /\ (logs' # logs) => (fpc \in StoragePcs /\ fpc' = "sleep")
    ]_vars

\* C18: the lock has one holder at most; the listener holds it exactly
\* while it is at its append, the flush thread exactly while it copies and
\* clears, never both; whoever holds it is therefore not sleeping, not in
\* a storage or gateway call and not reading from the transport; the steps
\* a thread takes under the lock touch neither storage nor gateway nor
\* transport; and every step out of the critical section, the one of the
\* empty buffer included, leaves the lock free.
C18_LockCoversMemoryOnly ==
  /\ [](buffer_lock \in {"free", "listener", "flusher"})
  /\ [](buffer_lock = "listener" <=> lpc = "append")
  /\ [](buffer_lock = "flusher" <=> fpc \in {"drain", "clear"})
  /\ [](~(lpc = "append" /\ fpc \in {"drain", "clear"}))
  /\ [][ /\ (buffer_lock = "flusher" /\ fpc' # fpc) =>
              /\ pg_calls' = pg_calls
              /\ executed' = executed
              /\ db' = db
              /\ logs' = logs
         /\ (buffer_lock = "listener" /\ lpc' # lpc) =>
              /\ gateway' = gateway
              /\ sock' = sock
              /\ delivered' = delivered
         /\ (fpc \in {"drain", "clear"} /\ fpc' \notin {"drain", "clear"}) =>
              buffer_lock' = "free"
         /\ (lpc = "append" /\ lpc' # "append") => buffer_lock' = "free"
       ]_vars

\* After a firing that found the buffer empty, the flush thread holds the
\* lock again, between copy and clear, and the listener waits for it.
C18_Witness ==
  /\ last_drain = "empty"
  /\ buffer_lock = "flusher"
  /\ fpc = "clear"
  /\ lpc = "lock"

\* Where the listener can be blocked for any length of time.
BlockedPcs == {"connect", "listen", "forward", "forward_failed", "delay"}

\* C19: a listener that is connecting, waiting for a message, in a gateway
\* call or in its reconnect delay does not hold the lock, so the flush
\* thread can take it; and every firing of the flush thread gets the lock
\* and completes its drain, wherever the listener stands and however long
\* it stays there, as long as the process runs.
C19_ListenerNeverStallsFlush ==
  /\ [](lpc \in BlockedPcs => buffer_lock # "listener")
  /\ []((fpc = "lock" /\ lpc \in BlockedPcs) => ENABLED FlushLock)
  /\ (fpc = "lock") ~>
        (~Alive \/ (buffer_lock # "flusher" /\ fpc \in {"sleep", "connect"}))

\* The record of the tick whose gateway call is still going on has been
\* drained and committed.
C19_Witness ==
  /\ lpc = "forward"
  /\ ltick.id \in Ids(db)

\* C20: every record in the buffer is taken out of it by a later drain; a
\* record of a drained batch is, once the cycle of its batch is over,
\* either in the table or among the discarded ones, never both, and it is
\* not in the buffer again.
C20_RecordsLeaveBuffer ==
  /\ \A id \in 1..MaxMsgs :
        (id \in Ids(batch_buffer)) ~>
           /\ id \notin Ids(batch_buffer)
           /\ id \in Ids(Flatten(drained))
           /\ id \in Ids(db) \/ id \in discarded
  /\ [](\A id \in Ids(Flatten(drained)) :
          /\ id \notin Ids(batch_buffer)
          /\ ~(id \in Ids(db) /\ id \in discarded)
          /\ (fpc \notin StoragePcs \/ id \notin Ids(to_insert)) =>
                (id \in Ids(db) \/ id \in discarded))

\* Both records have left the buffer, one into the table and one with a
\* failed insert.
C20_Witness ==
  /\ Len(appended) = 2
  /\ batch_buffer = <<>>
  /\ fpc = "sleep"
  /\ appended[1].id \in discarded
  /\ appended[2].id \in Ids(db)

====
